---------------------------- MODULE Spec2Model ----------------------------
(***************************************************************************)
(* A model of the quantum wave simulation: the two FFT engines, the wave   *)
(* packet initializer, the potential builders, the evolvers and the React  *)
(* driver (effects, click handlers, animation frames) of each variant of   *)
(* the component that the repository holds.                                *)
(*                                                                         *)
(* Numbers.  A JavaScript number is modelled as a fixed-point integer with *)
(* SCALE units per 1.0, or as NaN.  NaN stands for every non-finite value  *)
(* (NaN, +Infinity, -Infinity); `undefined` read from an array hole or     *)
(* past the end of an array behaves as NaN in arithmetic and is modelled   *)
(* by it.  Plain integers of the code (indices, lengths, loop counters,    *)
(* the literal 2 in 2*hbar) stay plain integers.                           *)
(*                                                                         *)
(* Angles.  An angle is a fixed-point number of quarter turns, so that     *)
(* Math.PI is 2.0 and Math.cos / Math.sin are exact on whole quarter       *)
(* turns.  The parameter sets of the model are chosen so that every angle  *)
(* the code computes is a whole number of quarter turns (OnLattice).       *)
(*                                                                         *)
(* Grid.  The components run on 512, 400 or 200 grid points; the model     *)
(* runs them on 4, with the margins w and edgeMargin and the position of   *)
(* grid point 0 scaled down with it.  The rounding of Float32Array cells   *)
(* to single precision is not modelled.                                    *)
(***************************************************************************)
EXTENDS Integers, Sequences, FiniteSets, TLC

\* fixed-point units per 1.0
SCALE == 10 * 10 * 10

\* the largest array length handed to an FFT engine on its own
MaxN == 4

NaN == 0 - 999999999

-----------------------------------------------------------------------------
(* Arithmetic of JavaScript numbers *)

IsFinite(a) == a # NaN

Add(a, b) == IF a = NaN \/ b = NaN THEN NaN ELSE a + b

Sub(a, b) == IF a = NaN \/ b = NaN THEN NaN ELSE a - b

Neg(a) == IF a = NaN THEN NaN ELSE 0 - a

\* p / q rounded to the nearest integer, q > 0
RoundDiv(p, q) == (2 * p + q) \div (2 * q)

\* a * b of two fixed-point numbers
Mul(a, b) == IF a = NaN \/ b = NaN THEN NaN ELSE RoundDiv(a * b, SCALE)

\* a * k for a plain integer k
MulInt(a, k) == IF a = NaN THEN NaN ELSE a * k

\* a / b of two fixed-point numbers: 0/0 is NaN, x/0 is an infinity
Div(a, b) ==
    IF a = NaN \/ b = NaN \/ b = 0 THEN NaN
    ELSE IF b > 0 THEN RoundDiv(a * SCALE, b)
    ELSE RoundDiv((0 - a) * SCALE, 0 - b)

\* a / k for a plain integer k > 0
DivInt(a, k) == IF a = NaN THEN NaN ELSE RoundDiv(a, k)

RECURSIVE SqrtSearch(_, _, _)
SqrtSearch(n, lo, hi) ==
    IF lo >= hi THEN lo
    ELSE LET mid == (lo + hi + 1) \div 2
         IN  IF mid * mid <= n THEN SqrtSearch(n, mid, hi)
             ELSE SqrtSearch(n, lo, mid - 1)

\* Math.sqrt of a fixed-point number, rounded to the nearest unit
Sqrt(a) ==
    IF a = NaN \/ a < 0 THEN NaN
    ELSE LET n == a * SCALE
             r == SqrtSearch(n, 0, IF n > 46340 THEN 46340 ELSE n)
         IN  IF (n - r * r) > r THEN r + 1 ELSE r

\* Math.PI as an angle: half a turn
PI == 2 * SCALE

\* an angle that is a whole number of quarter turns
OnLattice(a) == a # NaN /\ a % SCALE = 0

Quarter(a) == (a \div SCALE) % 4

\* Math.cos
Cos(a) ==
    IF a = NaN THEN NaN
    ELSE CASE Quarter(a) = 0 -> SCALE
           [] Quarter(a) = 1 -> 0
           [] Quarter(a) = 2 -> 0 - SCALE
           [] OTHER -> 0

\* Math.sin
Sin(a) ==
    IF a = NaN THEN NaN
    ELSE CASE Quarter(a) = 0 -> 0
           [] Quarter(a) = 1 -> SCALE
           [] Quarter(a) = 2 -> 0
           [] OTHER -> 0 - SCALE

-----------------------------------------------------------------------------
(* Arrays: functions on 0..n-1 *)

ALen(a) == Cardinality(DOMAIN a)

\* a read of a[i]: undefined past the end
Get(a, i) == IF i \in DOMAIN a THEN a[i] ELSE NaN

\* a[i] = v on a typed array or within bounds: a write past the end is dropped
Set(a, i, v) == IF i \in DOMAIN a THEN [a EXCEPT ![i] = v] ELSE a

\* an array whose cells have been computed and stored (the same array as a)
Stored(a) == a @@ <<>>

IsPow2(n) == n \in {1, 2, 4, 8, 16}

-----------------------------------------------------------------------------
(* FFT engine, recursive decimation *)

Evens(a) == Stored([i \in 0..((ALen(a) \div 2) - 1) |-> a[2 * i]])

Odds(a) == Stored([i \in 0..((ALen(a) \div 2) - 1) |-> a[2 * i + 1]])

\* the twiddle angle without its sign (t = 2 * Math.PI * k / n)
TwiddleAnglePositive(k, n) == RoundDiv(2 * PI * k, n)

\* the twiddle angle t = -2 * Math.PI * k / n
TwiddleAngle(k, n) == RoundDiv((0 - 2) * PI * k, n)

\* fft(re, im) with the angle t added where the product tr is meant
\* (re[k] = er[k] + t)
RECURSIVE fftAddsAngle(_, _)
fftAddsAngle(re, im) ==
    LET n == ALen(re)
        h == n \div 2
    IN  IF n <= 1 THEN [re |-> re, im |-> im, err |-> FALSE]
        ELSE IF n % 2 # 0 THEN [re |-> re, im |-> im, err |-> TRUE]
        ELSE LET E == fftAddsAngle(Evens(re), Evens(im))
                 O == fftAddsAngle(Odds(re), Odds(im))
                 c(k) == Cos(TwiddleAngle(k, n))
                 s(k) == Sin(TwiddleAngle(k, n))
                 tr(k) == Sub(Mul(c(k), O.re[k]), Mul(s(k), O.im[k]))
                 ti(k) == Add(Mul(s(k), O.re[k]), Mul(c(k), O.im[k]))
             IN  IF E.err \/ O.err THEN [re |-> re, im |-> im, err |-> TRUE]
                 ELSE [re |-> Stored([j \in 0..(n - 1) |->
                                 IF j < h THEN Add(E.re[j], TwiddleAngle(j, n))
                                 ELSE Sub(E.re[j - h], tr(j - h))]),
                       im |-> Stored([j \in 0..(n - 1) |->
                                 IF j < h THEN Add(E.im[j], ti(j))
                                 ELSE Sub(E.im[j - h], ti(j - h))]),
                       err |-> FALSE]

\* fft(re, im): the arrays after the call; err when `new Array(n / 2)` throws
\* a RangeError (n / 2 is not an integer), which happens before any write
RECURSIVE fftRecursive(_, _)
fftRecursive(re, im) ==
    LET n == ALen(re)
        h == n \div 2
    IN  IF n <= 1 THEN [re |-> re, im |-> im, err |-> FALSE]
        ELSE IF n % 2 # 0 THEN [re |-> re, im |-> im, err |-> TRUE]
        ELSE LET E == fftRecursive(Evens(re), Evens(im))
                 O == fftRecursive(Odds(re), Odds(im))
                 c(k) == Cos(TwiddleAngle(k, n))
                 s(k) == Sin(TwiddleAngle(k, n))
                 tr(k) == Sub(Mul(c(k), O.re[k]), Mul(s(k), O.im[k]))
                 ti(k) == Add(Mul(s(k), O.re[k]), Mul(c(k), O.im[k]))
             IN  IF E.err \/ O.err THEN [re |-> re, im |-> im, err |-> TRUE]
                 ELSE [re |-> Stored([j \in 0..(n - 1) |->
                                 IF j < h THEN Add(E.re[j], tr(j))
                                 ELSE Sub(E.re[j - h], tr(j - h))]),
                       im |-> Stored([j \in 0..(n - 1) |->
                                 IF j < h THEN Add(E.im[j], ti(j))
                                 ELSE Sub(E.im[j - h], ti(j - h))]),
                       err |-> FALSE]

Negated(a) == Stored([i \in DOMAIN a |-> Neg(a[i])])

\* ifft that leaves out the conjugation of the result
ifftNoConjugate(re, im) ==
    LET n == ALen(re)
        F == fftRecursive(re, Negated(im))
    IN  IF F.err THEN [re |-> re, im |-> Negated(im), err |-> TRUE]
        ELSE [re |-> Stored([i \in DOMAIN re |-> DivInt(F.re[i], n)]),
              im |-> Stored([i \in DOMAIN im |-> DivInt(F.im[i], n)]),
              err |-> FALSE]

\* ifft(re, im): conjugate, forward transform, divide by n, conjugate
ifft(re, im) ==
    LET n == ALen(re)
        F == fftRecursive(re, Negated(im))
    IN  IF F.err THEN [re |-> re, im |-> Negated(im), err |-> TRUE]
        ELSE [re |-> Stored([i \in DOMAIN re |-> DivInt(F.re[i], n)]),
              im |-> Stored([i \in DOMAIN im |-> DivInt(Neg(F.im[i]), n)]),
              err |-> FALSE]

-----------------------------------------------------------------------------
(* FFT engine, iterative in place *)

\* the number of passes of `for (j = 0; j < bits; j++)` with bits = Math.log2(n)
RECURSIVE LoopBits(_)
LoopBits(n) == IF n <= 1 THEN 0 ELSE 1 + LoopBits((n + 1) \div 2)

\* rev = (rev << 1) | (k & 1); k >>= 1, `bits` times
RECURSIVE ReverseBits(_, _, _)
ReverseBits(k, bits, rev) ==
    IF bits = 0 THEN rev
    ELSE ReverseBits(k \div 2, bits - 1, 2 * rev + (k % 2))

\* [a[i], a[rev]] = [a[rev], a[i]]
Swap(a, i, rev) == Set(Set(a, i, Get(a, rev)), rev, Get(a, i))

\* the bit reversal permutation, from index i on
RECURSIVE BitReversal(_, _, _)
BitReversal(re, im, i) ==
    LET n == ALen(re)
        rev == ReverseBits(i, LoopBits(n), 0)
    IN  IF i >= n THEN [re |-> re, im |-> im]
        ELSE IF i < rev THEN BitReversal(Swap(re, i, rev), Swap(im, i, rev), i + 1)
        ELSE BitReversal(re, im, i + 1)

\* the stage angle without the sign of the inverse (angle = (2 * Math.PI) / len)
StageAngleOneSign(len, inverse) == RoundDiv(2 * PI, len)

\* angle = (2 * Math.PI) / len * (inverse ? -1 : 1)
StageAngle(len, inverse) ==
    RoundDiv(2 * PI, len) * (IF inverse THEN 0 - 1 ELSE 1)

\* the loop over j of one block starting at i, with the running twiddle (wR, wI)
RECURSIVE ButterflyBlock(_, _, _, _, _, _, _, _)
ButterflyBlock(re, im, i, j, len, wR, wI, inverse) ==
    LET halfLen == len \div 2
        wLenR == Cos(StageAngle(len, inverse))
        wLenI == Sin(StageAngle(len, inverse))
        uR == Get(re, i + j)
        uI == Get(im, i + j)
        xR == Get(re, i + j + halfLen)
        xI == Get(im, i + j + halfLen)
        vR == Sub(Mul(xR, wR), Mul(xI, wI))
        vI == Add(Mul(xR, wI), Mul(xI, wR))
        re2 == Set(Set(re, i + j, Add(uR, vR)), i + j + halfLen, Sub(uR, vR))
        im2 == Set(Set(im, i + j, Add(uI, vI)), i + j + halfLen, Sub(uI, vI))
    IN  IF j >= halfLen THEN [re |-> re, im |-> im]
        ELSE ButterflyBlock(re2, im2, i, j + 1, len,
                            Sub(Mul(wR, wLenR), Mul(wI, wLenI)),
                            Add(Mul(wR, wLenI), Mul(wI, wLenR)), inverse)

\* the loop over the blocks i = 0, len, 2*len, ... of one stage
RECURSIVE ButterflyStage(_, _, _, _, _)
ButterflyStage(re, im, i, len, inverse) ==
    IF i >= ALen(re) THEN [re |-> re, im |-> im]
    ELSE LET B == ButterflyBlock(re, im, i, 0, len, SCALE, 0, inverse)
         IN  ButterflyStage(B.re, B.im, i + len, len, inverse)

\* the loop over the stages len = 2, 4, ... <= n
RECURSIVE Butterflies(_, _, _, _)
Butterflies(re, im, len, inverse) ==
    IF len > ALen(re) THEN [re |-> re, im |-> im]
    ELSE LET T == ButterflyStage(re, im, 0, len, inverse)
         IN  Butterflies(T.re, T.im, 2 * len, inverse)

\* fft(re, im, inverse): never throws
fftIterative(re, im, inverse) ==
    LET n == ALen(re)
        P == BitReversal(re, im, 0)
        B == Butterflies(P.re, P.im, 2, inverse)
    IN  IF inverse
        THEN [re |-> Stored([i \in DOMAIN re |-> DivInt(B.re[i], n)]),
              im |-> Stored([i \in DOMAIN im |-> DivInt(B.im[i], n)]),
              err |-> FALSE]
        ELSE [re |-> B.re, im |-> B.im, err |-> FALSE]

-----------------------------------------------------------------------------
(* The variants of the component *)

\* "recursive"  src/app.js 1-310: recursive FFT, one params state
\* "src"        src/src/app.js: the same with a different initialize
\* "iterative"  src/app.js 312-771: iterative FFT, separate barrier state
\* "staggered"  src/unnamed/part_000 1-435: finite differences, barrier effect
\* "jsx"        src/QuantumWaveSimulation.jsx: finite differences, no refs
Variants == {"recursive", "src", "iterative", "staggered", "jsx"}

FFTVariants == {"recursive", "src", "iterative"}

\* INITIAL_PARAMS / the useState initial values, on the model's grid of 4
\* points: lengths in units of dx, k0 in quarter turns per unit length, and
\* dt, m chosen so that the phases of evolve are whole quarter turns
InitialParams(v) ==
    CASE v \in {"recursive", "src"} ->
           [nx |-> 4, dx |-> SCALE, dt |-> 100 * SCALE, hbar |-> SCALE, m |-> 50 * SCALE,
            k0 |-> SCALE, x0 |-> 0 - SCALE, sigma |-> SCALE,
            barrierHeight |-> 2 * SCALE, barrierWidth |-> SCALE, barrierPos |-> 0,
            speed |-> 2]
      [] v = "iterative" ->
           [nx |-> 4, dx |-> SCALE, dt |-> 2 * SCALE, hbar |-> SCALE, m |-> SCALE,
            k0 |-> SCALE, x0 |-> 0 - SCALE, sigma |-> SCALE,
            barrierHeight |-> SCALE, barrierWidth |-> SCALE, barrierPos |-> 0,
            speed |-> 2]
      [] v = "staggered" ->
           [nx |-> 4, dx |-> SCALE, dt |-> SCALE \div 10, hbar |-> SCALE, m |-> SCALE,
            k0 |-> SCALE, x0 |-> 0 - SCALE, sigma |-> SCALE,
            barrierHeight |-> 2 * SCALE, barrierWidth |-> SCALE, barrierPos |-> 0,
            speed |-> 1]
      [] OTHER ->
           [nx |-> 4, dx |-> SCALE, dt |-> SCALE, hbar |-> SCALE, m |-> SCALE,
            k0 |-> SCALE, x0 |-> SCALE, sigma |-> SCALE,
            barrierHeight |-> 2 * SCALE, barrierWidth |-> 2 * SCALE, barrierPos |-> SCALE,
            speed |-> 1]

\* xStart / startX: the position of grid point 0 (the jsx variant has x = i*dx)
xStart(v) == IF v = "jsx" THEN 0 ELSE 0 - 2 * SCALE

\* x = xStart + i * dx
GridX(v, p, i) == Add(xStart(v), MulInt(p.dx, i))

\* new Array(n): every cell a hole
NewArray(n) == [i \in 0..(n - 1) |-> NaN]

\* the value of a ref that holds null
Null == <<>>

-----------------------------------------------------------------------------
(* Wave packet initializer *)

\* Math.exp of an argument <= 0 that is a multiple of 1/2, rounded to a unit;
\* below -7.5 the result rounds to 0 (underflow)
Exp(a) ==
    IF a = NaN THEN NaN
    ELSE LET n == (0 - a) \div (SCALE \div 2)
             T == <<1000, 607, 368, 223, 135, 82, 50, 30, 18, 11, 7, 4, 2, 2, 1, 1>>
         IN  IF n < 0 THEN NaN
             ELSE IF n >= Len(T) THEN 0
             ELSE (T[n + 1] * SCALE) \div 1000

\* g = Math.exp(-Math.pow(x - x0, 2) / (2 * Math.pow(sigma, 2))); with sigma = 0
\* the quotient is 0/0 = NaN at x = x0 and +Infinity elsewhere, exp(-Infinity) = 0
Gauss(x, p) ==
    LET d == Sub(x, p.x0)
    IN  IF p.sigma = 0 THEN (IF d = 0 THEN NaN ELSE 0)
        ELSE Exp(Div(Neg(Mul(d, d)), MulInt(Mul(p.sigma, p.sigma), 2)))

\* psi_r[i] = g * Math.cos(k0 * x)
WaveReal(v, p, i) == Mul(Gauss(GridX(v, p, i), p), Cos(Mul(p.k0, GridX(v, p, i))))

\* psi_i[i] = g * Math.sin(k0 * x)
WaveImag(v, p, i) == Mul(Gauss(GridX(v, p, i), p), Sin(Mul(p.k0, GridX(v, p, i))))

\* psi_r[i]^2 + psi_i[i]^2
Density(r, im) == Add(Mul(r, r), Mul(im, im))

\* the sum of a[lo..hi-1]
RECURSIVE SumTo(_, _)
SumTo(a, hi) == IF hi <= 0 THEN 0 ELSE Add(SumTo(a, hi - 1), a[hi - 1])

\* the sum over i of psi_r[i]^2 + psi_i[i]^2 of the values the loop assigns
AssignedSquares(v, p) ==
    SumTo(Stored([i \in 0..(p.nx - 1) |-> Density(WaveReal(v, p, i), WaveImag(v, p, i))]),
          p.nx)

\* the same sum over the cells of new Array(nx) before they are assigned
HoleSquares(p) ==
    SumTo(Stored([i \in 0..(p.nx - 1) |-> Density(NewArray(p.nx)[i], NewArray(p.nx)[i])]),
          p.nx)

\* the accumulator after the loop: norm += psi_r[i]^2 + psi_i[i]^2 for each i.
\* In src/src/app.js the loop first adds the squares of the cells it has not
\* assigned yet (holes), and then those of the assigned values.  (The loop of
\* that file lacks its closing brace, so that the normalisation runs inside
\* it: the accumulator is NaN from the first pass on either way.)
NormAccumulator(v, p) ==
    IF v = "src" THEN Add(HoleSquares(p), AssignedSquares(v, p))
    ELSE AssignedSquares(v, p)

\* norm = Math.sqrt(norm * dx)
NormDivisor(v, p) == Sqrt(Mul(NormAccumulator(v, p), p.dx))

\* the arrays after psi_r[i] /= norm; psi_i[i] /= norm
InitPsi(v, p) ==
    LET norm == NormDivisor(v, p)
    IN  [psi_r |-> Stored([i \in 0..(p.nx - 1) |-> Div(WaveReal(v, p, i), norm)]),
         psi_i |-> Stored([i \in 0..(p.nx - 1) |-> Div(WaveImag(v, p, i), norm)])]

-----------------------------------------------------------------------------
(* Potential builders *)

\* the absorbing margin w of initialize, in grid points (40 of the source's 512)
w == 2

\* the damping coefficient eta = 0.02
eta == SCALE \div 50

\* the edge margin of updatePotential, in grid points (20 of the source's 512)
edgeMargin == 1

\* the value added at the edges by updatePotential: val += 100
edgeWall == 100 * SCALE

\* the rectangular barrier at position x
BarrierTerm(v, p, x) ==
    IF v = "jsx"
    THEN (IF x > p.barrierPos /\ x < Add(p.barrierPos, p.barrierWidth)
          THEN p.barrierHeight ELSE 0)
    ELSE (IF x > Sub(p.barrierPos, DivInt(p.barrierWidth, 2))
             /\ x < Add(p.barrierPos, DivInt(p.barrierWidth, 2))
          THEN p.barrierHeight ELSE 0)

\* what the variant adds to V[i] at the edges of the domain
BoundaryTerm(v, p, i) ==
    CASE v \in {"recursive", "src"} ->
           Add(IF i < w THEN MulInt(Neg(eta), (w - i) * (w - i)) ELSE 0,
               IF i > p.nx - w THEN MulInt(Neg(eta), (i - (p.nx - w)) * (i - (p.nx - w)))
               ELSE 0)
      [] v = "iterative" ->
           IF i < edgeMargin \/ i > p.nx - edgeMargin THEN edgeWall ELSE 0
      [] OTHER -> 0

\* the array V that initialize (or updatePotential) builds from the parameters
BuildPotential(v, p) ==
    [i \in 0..(p.nx - 1) |-> Add(BarrierTerm(v, p, GridX(v, p, i)), BoundaryTerm(v, p, i))]

\* the array V that the barrier effect of the staggered variant builds
BarrierEffectPotential(v, p) ==
    [i \in 0..(p.nx - 1) |-> BarrierTerm(v, p, GridX(v, p, i))]

-----------------------------------------------------------------------------
(* Evolvers *)

\* the pair (psi_r[i], psi_i[i]) multiplied by e^{i ph}
RotateReal(r, im, ph) == Sub(Mul(Cos(ph), r), Mul(Sin(ph), im))

RotateImag(r, im, ph) == Add(Mul(Sin(ph), r), Mul(Cos(ph), im))

\* ph = -V[i] * dt / (2 * hbar)
PotentialPhase(Vi, p) == Div(Mul(Neg(Vi), p.dt), MulInt(p.hbar, 2))

\* the half step in the potential written in place without the temporaries
\* r and im: psi_i[i] is computed from the psi_r[i] just assigned
HalfStepPotentialInPlace(psi, V, p) ==
    [psi_r |-> Stored([i \in 0..(p.nx - 1) |->
                  RotateReal(Get(psi.psi_r, i), Get(psi.psi_i, i), PotentialPhase(Get(V, i), p))]),
     psi_i |-> Stored([i \in 0..(p.nx - 1) |->
                  RotateImag(RotateReal(Get(psi.psi_r, i), Get(psi.psi_i, i),
                                        PotentialPhase(Get(V, i), p)),
                             Get(psi.psi_i, i), PotentialPhase(Get(V, i), p))])]

\* the half step in the potential, on every grid point
HalfStepPotential(psi, V, p) ==
    [psi_r |-> Stored([i \in 0..(p.nx - 1) |->
                  RotateReal(Get(psi.psi_r, i), Get(psi.psi_i, i), PotentialPhase(Get(V, i), p))]),
     psi_i |-> Stored([i \in 0..(p.nx - 1) |->
                  RotateImag(Get(psi.psi_r, i), Get(psi.psi_i, i), PotentialPhase(Get(V, i), p))])]

\* the bin number without the wrap to negative values (k = 2 * Math.PI * i / (nx * dx)
\* for every i)
WaveBinNoWrap(i, nx) == i

\* the signed bin number of momentum index i
WaveBin(i, nx) == IF 2 * i < nx THEN i ELSE i - nx

\* dk = 2 * Math.PI / (nx * dx)
dk(p) == Div(MulInt(PI, 2), MulInt(p.dx, p.nx))

\* k = (2 * Math.PI * bin) / (nx * dx), or bin * dk in the iterative variant
WaveNumber(v, i, p) ==
    IF v = "iterative" THEN MulInt(dk(p), WaveBin(i, p.nx))
    ELSE Div(MulInt(PI, 2 * WaveBin(i, p.nx)), MulInt(p.dx, p.nx))

\* ph = -hbar * k * k * dt / (2 * m)
KineticPhase(v, i, p) ==
    Div(Mul(Mul(Mul(Neg(p.hbar), WaveNumber(v, i, p)), WaveNumber(v, i, p)), p.dt),
        MulInt(p.m, 2))

\* the full step in the kinetic energy, in momentum space
KineticStep(v, psi, p) ==
    [psi_r |-> Stored([i \in 0..(p.nx - 1) |->
                  RotateReal(psi.psi_r[i], psi.psi_i[i], KineticPhase(v, i, p))]),
     psi_i |-> Stored([i \in 0..(p.nx - 1) |->
                  RotateImag(psi.psi_r[i], psi.psi_i[i], KineticPhase(v, i, p))])]

\* the forward transform of the variant
Forward(v, re, im) == IF v = "iterative" THEN fftIterative(re, im, FALSE) ELSE fftRecursive(re, im)

\* the inverse transform of the variant
Inverse(v, re, im) == IF v = "iterative" THEN fftIterative(re, im, TRUE) ELSE ifft(re, im)

\* evolve() of the split-step variants: the new stateRef.current (the grid of
\* the component has a power-of-two length, on which no transform throws)
EvolveSplitStep(v, p, st) ==
    LET a == HalfStepPotential(st, st.V, p)
        F == Forward(v, a.psi_r, a.psi_i)
        k == KineticStep(v, [psi_r |-> F.re, psi_i |-> F.im], p)
        B == Inverse(v, k.psi_r, k.psi_i)
        b == HalfStepPotential([psi_r |-> B.re, psi_i |-> B.im], st.V, p)
    IN  [psi_r |-> b.psi_r, psi_i |-> b.psi_i, V |-> st.V, time |-> Add(st.time, p.dt)]

\* a[i+1] - 2*a[i] + a[i-1]
Laplacian(a, i) == Add(Sub(a[i + 1], MulInt(a[i], 2)), a[i - 1])

\* H_psi = (-hbar * hbar / (2 * m)) * (laplacian / (dx * dx)) + V[i] * a[i]
Hamiltonian(a, V, i, p) ==
    Add(Mul(Div(Mul(Neg(p.hbar), p.hbar), MulInt(p.m, 2)),
            Div(Laplacian(a, i), Mul(p.dx, p.dx))),
        Mul(V[i], a[i]))

\* evolve() of the staggered variant
EvolveStaggered(p, st) ==
    LET n == p.nx
        pi == Stored([i \in 0..(n - 1) |->
                 IF i = 0 \/ i = n - 1 THEN 0
                 ELSE Sub(st.psi_i[i], Mul(Div(p.dt, p.hbar), Hamiltonian(st.psi_r, st.V, i, p)))])
        pr == Stored([i \in 0..(n - 1) |->
                 IF i = 0 \/ i = n - 1 THEN 0
                 ELSE Add(st.psi_r[i], Mul(Div(p.dt, p.hbar), Hamiltonian(pi, st.V, i, p)))])
    IN  [psi_r |-> pr, psi_i |-> pi, V |-> st.V, time |-> Add(st.time, p.dt)]

\* coeff = hbar * dt / (2 * m * dx * dx)
DiffusionCoeff(p) == Div(Mul(p.hbar, p.dt), Mul(Mul(MulInt(p.m, 2), p.dx), p.dx))

\* evolve() of the jsx variant
EvolveFiniteDifference(p, st) ==
    LET n == p.nx
        a == HalfStepPotential(st, st.V, p)
        nr == Stored([i \in 0..(n - 1) |->
                 IF i = 0 \/ i = n - 1 THEN 0
                 ELSE Add(a.psi_r[i], Mul(DiffusionCoeff(p), Laplacian(a.psi_i, i)))])
        ni == Stored([i \in 0..(n - 1) |->
                 IF i = 0 \/ i = n - 1 THEN 0
                 ELSE Sub(a.psi_i[i], Mul(DiffusionCoeff(p), Laplacian(a.psi_r, i)))])
        b == HalfStepPotential([psi_r |-> nr, psi_i |-> ni], st.V, p)
    IN  [psi_r |-> b.psi_r, psi_i |-> b.psi_i, V |-> st.V, time |-> Add(st.time, p.dt)]

\* totalProbability(): sum * dx
totalProbability(st, p) ==
    Mul(SumTo(Stored([i \in 0..(ALen(st.psi_r) - 1) |-> Density(st.psi_r[i], st.psi_i[i])]),
              ALen(st.psi_r)),
        p.dx)

\* draw() that stores the density in psi_r (psi_r[i] = psi_r[i]**2 + psi_i[i]**2)
drawInPlace(v, p, st, seen) ==
    LET prob == Stored([i \in 0..(p.nx - 1) |-> Density(Get(st.psi_r, i), Get(st.psi_i, i))])
    IN  IF st.psi_r = Null THEN [state |-> st, seen |-> seen]
        ELSE [state |-> [st EXCEPT !.psi_r = prob],
              seen |-> [prob |-> prob,
                        totals |-> IF v = "iterative" THEN <<totalProbability(st, p)>>
                                   ELSE <<>>]]

\* draw(): stateRef.current after the call, and what the call computed and
\* plotted: the density prob[i] of every grid point and, in the variant that
\* prints it, the value of totalProbability(); `seen` is what the canvas
\* showed before, which stays when draw() returns at its guard
draw(v, p, st, seen) ==
    IF st.psi_r = Null THEN [state |-> st, seen |-> seen]
    ELSE [state |-> st,
          seen |-> [prob |-> Stored([i \in 0..(p.nx - 1) |->
                                Density(Get(st.psi_r, i), Get(st.psi_i, i))]),
                    totals |-> IF v = "iterative" THEN <<totalProbability(st, p)>>
                               ELSE <<>>]]

\* evolve() without stateRef.current.time += dt
EvolveKeepsTime(v, p, st) ==
    [(CASE v \in FFTVariants -> EvolveSplitStep(v, p, st)
        [] v = "staggered" -> EvolveStaggered(p, st)
        [] OTHER -> EvolveFiniteDifference(p, st)) EXCEPT !.time = st.time]

\* evolve() that stores the phase of the half step in the potential array
\* (V[i] = -V[i] * dt / (2 * hbar))
EvolveOverwritesPotential(v, p, st) ==
    [(CASE v \in FFTVariants -> EvolveSplitStep(v, p, st)
        [] v = "staggered" -> EvolveStaggered(p, st)
        [] OTHER -> EvolveFiniteDifference(p, st))
     EXCEPT !.V = Stored([i \in DOMAIN st.V |-> PotentialPhase(st.V[i], p)])]

\* one call of evolve()
Evolve(v, p, st) ==
    CASE v \in FFTVariants -> EvolveSplitStep(v, p, st)
      [] v = "staggered" -> EvolveStaggered(p, st)
      [] OTHER -> EvolveFiniteDifference(p, st)

\* for (let i = 0; i < n; i++) evolve()
RECURSIVE EvolveTimes(_, _, _, _)
EvolveTimes(v, p, st, n) ==
    IF n <= 0 THEN st ELSE EvolveTimes(v, p, Evolve(v, p, st), n - 1)

\* initialize(): the new stateRef.current
Initialize(v, p) ==
    [psi_r |-> InitPsi(v, p).psi_r, psi_i |-> InitPsi(v, p).psi_i,
     V |-> BuildPotential(v, p),
     time |-> 0]

-----------------------------------------------------------------------------
(* The component: React state, refs, effects, handlers, animation frames *)

VARIABLES
    variant,    \* which variant of the component runs
    params,     \* the React state holding the parameters
    paramsRef,  \* paramsRef.current (Null in the jsx variant, which has no such ref)
    stateRef,   \* stateRef.current: psi_r, psi_i, V, time
    isPlaying,  \* the React state isPlaying
    frames,     \* the number of pending requestAnimationFrame callbacks
    tracked,    \* animationRef.current is the id of a pending callback
    mounted,    \* the mount effects have run
    nsteps,     \* history: the calls of evolve() since the last initialize()
    ft,         \* a run of an FFT engine on its own: input, arrays, position
    observed,   \* what the last call of draw() on its own computed from the state
    step        \* a call of evolve() statement by statement: position, operations run

vars == <<variant, params, paramsRef, stateRef, isPlaying, frames, tracked, mounted, nsteps, ft,
          observed, step>>

\* the most calls of evolve() the model follows after one initialize()
MaxSteps == 4

\* the sliders of each variant and the values the model moves them to
Sliders(v) ==
    CASE v = "recursive" -> {"k0", "barrierPos", "barrierHeight", "barrierWidth"}
      [] v = "src" -> {"k0", "barrierHeight", "barrierWidth"}
      [] v = "iterative" -> {"k0", "x0", "sigma", "barrierHeight", "barrierWidth", "barrierPos"}
      [] v = "staggered" -> {"k0", "sigma", "barrierPos", "barrierHeight", "speed"}
      [] OTHER -> {"k0", "sigma", "barrierHeight", "barrierPos"}

SliderValues(v, f) ==
    CASE f = "k0" -> {SCALE, 2 * SCALE}
      [] f = "x0" -> {0 - SCALE, 0}
      [] f = "sigma" -> {SCALE, SCALE \div 2}
      [] f = "barrierHeight" -> IF v = "jsx" THEN {2 * SCALE, 4 * SCALE} ELSE {SCALE, 2 * SCALE}
      [] f = "barrierWidth" -> {SCALE, 3 * SCALE}
      [] f = "barrierPos" -> IF v = "jsx" THEN {SCALE, 2 * SCALE} ELSE {0, SCALE}
      [] OTHER -> {1, 2}

\* the dependency list of the effect that calls initialize(), without sigma
InitializeDepsNoSigma(v) ==
    CASE v \in {"recursive", "src"} ->
           {"k0", "x0", "barrierHeight", "barrierWidth", "barrierPos"}
      [] v = "iterative" -> {"nx", "k0", "x0"}
      [] v = "staggered" -> {"k0", "nx", "x0", "dx"}
      [] OTHER -> DOMAIN InitialParams(v) \ {"sigma"}

\* the dependency list of the effect that calls initialize()
InitializeDeps(v) ==
    CASE v \in {"recursive", "src"} ->
           {"k0", "sigma", "x0", "barrierHeight", "barrierWidth", "barrierPos"}
      [] v = "iterative" -> {"nx", "k0", "x0", "sigma"}
      [] v = "staggered" -> {"k0", "sigma", "nx", "x0", "dx"}
      [] OTHER -> DOMAIN InitialParams(v)

\* an effect that rebuilds the potential on mount only (an empty dependency list)
PotentialDepsEmpty(v) == {}

\* the dependency list of the effect that rebuilds only the potential
PotentialDeps(v) ==
    CASE v = "iterative" -> DOMAIN InitialParams(v)
      [] v = "staggered" -> {"barrierHeight", "barrierPos", "barrierWidth"}
      [] OTHER -> {}

\* the fields whose values differ between two parameter records
Changed(p, q) == {f \in DOMAIN p : p[f] # q[f]}

\* the parameters a function of the variant reads: paramsRef.current, or the
\* params of the render that created the function
Current(v, p, pref) == IF v = "jsx" THEN p ELSE pref

\* the effects after a change of params from p to q, with the effect that
\* sets paramsRef.current declared after those that read it: initialize() and
\* the potential update see the parameters of the previous render
AfterEffectsStale(v, p, q, st) ==
    LET st1 == IF v = "iterative" /\ Changed(p, q) \cap PotentialDeps(v) # {}
               THEN [st EXCEPT !.V = BuildPotential(v, p)] ELSE st
        st2 == IF Changed(p, q) \cap InitializeDeps(v) # {} THEN Initialize(v, p) ELSE st1
        st3 == IF v = "staggered" /\ Changed(p, q) \cap PotentialDeps(v) # {}
               THEN [st2 EXCEPT !.V = BarrierEffectPotential(v, p)] ELSE st2
    IN  st3

\* stateRef.current after the effects that follow a change of params from p to q
AfterEffects(v, p, q, st) ==
    LET st1 == IF v = "iterative" /\ Changed(p, q) \cap PotentialDeps(v) # {}
               THEN [st EXCEPT !.V = BuildPotential(v, q)] ELSE st
        st2 == IF Changed(p, q) \cap InitializeDeps(v) # {} THEN Initialize(v, q) ELSE st1
        st3 == IF v = "staggered" /\ Changed(p, q) \cap PotentialDeps(v) # {}
               THEN [st2 EXCEPT !.V = BarrierEffectPotential(v, q)] ELSE st2
    IN  st3

\* animate() that calls evolve() once, whatever the speed
StepsPerFrameOne(v, p) == 1

\* the number of calls of evolve() in one call of animate()
StepsPerFrame(v, p) ==
    CASE v = "jsx" -> 1
      [] v = "staggered" -> IF p.speed > 0 THEN p.speed ELSE 1
      [] OTHER -> p.speed

FtIdle == [pc |-> "idle"]

NullState == [psi_r |-> Null, psi_i |-> Null, V |-> Null, time |-> 0]

\* nothing has been drawn yet
Unobserved == [prob |-> Null, totals |-> Null]

\* no call of evolve() is under way, and none has run
StepIdle == [pc |-> 0, calls |-> <<>>]

Init ==
    /\ variant \in Variants
    /\ params = InitialParams(variant)
    /\ paramsRef = IF variant = "jsx" THEN Null ELSE params
    /\ stateRef = NullState
    /\ isPlaying = FALSE
    /\ frames = 0
    /\ tracked = FALSE
    /\ mounted = FALSE
    /\ nsteps = 0
    /\ ft = FtIdle
    /\ observed = Unobserved
    /\ step = StepIdle

\* the component is rendered inside <React.StrictMode>, which on mount runs
\* every effect, its cleanup, and the effect again
StrictMode(v) == v \in {"iterative", "staggered"}

\* the callbacks pending after cancelAnimationFrame(animationRef.current):
\* f are pending, and t tells whether animationRef.current is one of them
Cancelled(f, t) == IF t THEN f - 1 ELSE f

\* the isPlaying effect: request a callback and keep its id, or cancel
PlayingEffect(playing, f, t) ==
    IF playing THEN [frames |-> f + 1, tracked |-> TRUE]
    ELSE [frames |-> Cancelled(f, t), tracked |-> FALSE]

\* the cleanup of the isPlaying effect
PlayingCleanup(f, t) == [frames |-> Cancelled(f, t), tracked |-> FALSE]

\* the pending callbacks after the isPlaying effect has run on mount
MountAnimation(v, playing) ==
    LET once == PlayingEffect(playing, 0, FALSE)
        cleaned == PlayingCleanup(once.frames, once.tracked)
    IN  IF StrictMode(v) THEN PlayingEffect(playing, cleaned.frames, cleaned.tracked)
        ELSE once

\* a first render whose effects do not call initialize()
MountSkipsInitialize ==
    /\ ~mounted
    /\ mounted' = TRUE
    /\ nsteps' = 0
    /\ frames' = MountAnimation(variant, isPlaying).frames
    /\ tracked' = MountAnimation(variant, isPlaying).tracked
    /\ UNCHANGED <<variant, params, paramsRef, stateRef, isPlaying, ft, observed, step>>

\* the effects of the first render, in the order of their declaration
Mount ==
    /\ ~mounted
    /\ mounted' = TRUE
    /\ stateRef' = Initialize(variant, Current(variant, params, paramsRef))
    /\ nsteps' = 0
    /\ frames' = MountAnimation(variant, isPlaying).frames
    /\ tracked' = MountAnimation(variant, isPlaying).tracked
    /\ UNCHANGED <<variant, params, paramsRef, isPlaying, ft, observed, step>>

\* a slider's onChange: setParams, the render and the effects that follow
ChangeParam ==
    /\ mounted
    /\ \E f \in Sliders(variant) : \E x \in SliderValues(variant, f) :
         /\ x # params[f]
         /\ params' = [params EXCEPT ![f] = x]
         /\ paramsRef' = IF variant = "jsx" THEN Null ELSE params'
         /\ stateRef' = AfterEffects(variant, params, params', stateRef)
         /\ nsteps' = IF {f} \cap InitializeDeps(variant) # {} THEN 0 ELSE nsteps
    /\ UNCHANGED <<variant, isPlaying, frames, tracked, mounted, ft, observed, step>>

\* the Start / Pause button with an isPlaying effect that has no cleanup and
\* no cancelAnimationFrame: the pending callback stays
TogglePlayingNoCancel ==
    /\ mounted
    /\ isPlaying' = ~isPlaying
    /\ IF isPlaying'
       THEN /\ frames' = frames + 1
            /\ tracked' = TRUE
       ELSE /\ frames' = frames
            /\ tracked' = FALSE
    /\ UNCHANGED <<variant, params, paramsRef, stateRef, mounted, nsteps, ft, observed, step>>

\* the Start / Pause button: setIsPlaying(!isPlaying), then the cleanup of the
\* isPlaying effect (cancelAnimationFrame) and the effect itself
TogglePlaying ==
    /\ mounted
    /\ isPlaying' = ~isPlaying
    /\ IF isPlaying'
       THEN /\ frames' = (IF tracked THEN frames - 1 ELSE frames) + 1
            /\ tracked' = TRUE
       ELSE /\ frames' = IF tracked THEN frames - 1 ELSE frames
            /\ tracked' = FALSE
    /\ UNCHANGED <<variant, params, paramsRef, stateRef, mounted, nsteps, ft, observed, step>>

\* the parameters after the Reset button: only the staggered variant sets them
ResetParams(v, p) == IF v = "staggered" THEN InitialParams(v) ELSE p

\* the Reset button leads to a call of initialize(): directly, or in the
\* staggered variant through the effect on the wave-packet parameters
ResetInitializes(v, p) ==
    v # "staggered" \/ Changed(p, InitialParams(v)) \cap InitializeDeps(v) # {}

\* stateRef.current after the Reset button
ResetState(v, p, pref, st) ==
    IF v = "staggered" THEN AfterEffects(v, p, InitialParams(v), st)
    ELSE Initialize(v, Current(v, p, pref))

\* the Reset button, the render and the effects that follow
Reset ==
    /\ mounted
    /\ isPlaying' = FALSE
    /\ frames' = IF isPlaying /\ tracked THEN frames - 1 ELSE frames
    /\ tracked' = IF isPlaying THEN FALSE ELSE tracked
    /\ params' = ResetParams(variant, params)
    /\ paramsRef' = IF variant = "jsx" THEN Null ELSE params'
    /\ stateRef' = ResetState(variant, params, paramsRef, stateRef)
    /\ nsteps' = IF ResetInitializes(variant, params) THEN 0 ELSE nsteps
    /\ UNCHANGED <<variant, mounted, ft, observed, step>>

\* animate() runs its steps: the iterative variant skips them while
\* stateRef.current.psi_r is null
AnimateSteps(v, st) == v # "iterative" \/ st.psi_r # Null

\* animate() that runs its steps and draws but does not call
\* requestAnimationFrame(animate) again
FrameStops ==
    /\ frames > 0
    /\ LET p == Current(variant, params, paramsRef)
           n == IF AnimateSteps(variant, stateRef) THEN StepsPerFrame(variant, p) ELSE 0
       IN  /\ nsteps + n <= MaxSteps
           /\ stateRef' = EvolveTimes(variant, p, stateRef, n)
           /\ nsteps' = nsteps + n
    /\ frames' = frames - 1
    /\ tracked' = FALSE
    /\ UNCHANGED <<variant, params, paramsRef, isPlaying, mounted, ft, observed, step>>

\* animate() that requests the next callback without keeping its id in
\* animationRef.current
FrameDropsHandle ==
    /\ frames > 0
    /\ LET p == Current(variant, params, paramsRef)
           n == IF AnimateSteps(variant, stateRef) THEN StepsPerFrame(variant, p) ELSE 0
       IN  /\ nsteps + n <= MaxSteps
           /\ stateRef' = EvolveTimes(variant, p, stateRef, n)
           /\ nsteps' = nsteps + n
    /\ tracked' = FALSE
    /\ UNCHANGED <<variant, params, paramsRef, isPlaying, frames, mounted, ft, observed, step>>

\* a pending animation frame callback runs: animate()
Frame ==
    /\ frames > 0
    /\ LET p == Current(variant, params, paramsRef)
           n == IF AnimateSteps(variant, stateRef) THEN StepsPerFrame(variant, p) ELSE 0
       IN  /\ nsteps + n <= MaxSteps
           /\ stateRef' = EvolveTimes(variant, p, stateRef, n)
           /\ nsteps' = nsteps + n
    /\ tracked' = TRUE
    /\ UNCHANGED <<variant, params, paramsRef, isPlaying, frames, mounted, ft, observed, step>>

BarrierFields == {"barrierHeight", "barrierWidth", "barrierPos"}

WaveFields == {"nx", "k0", "x0", "sigma"}

\* C2: a change of barrier parameters alone replaces the potential and leaves
\* psi_r, psi_i and time exactly as they were
C2_BarrierOnlyUpdate ==
    [][(/\ mounted
        /\ Changed(params, params') # {}
        /\ Changed(params, params') \subseteq BarrierFields)
       => /\ stateRef'.psi_r = stateRef.psi_r
          /\ stateRef'.psi_i = stateRef.psi_i
          /\ stateRef'.time = stateRef.time
          /\ stateRef'.V = BuildPotential(variant, params')]_vars

\* C6: time is 0 after every initialize and each call of evolve() adds dt to
\* it, so that after N calls since the last initialize time is N * dt
C6_TimeBookkeeping ==
    mounted => stateRef.time = MulInt(params.dt, nsteps)

\* three calls of evolve() since the last initialize, made by two frames of
\* different speed
C6_Witness ==
    /\ mounted
    /\ nsteps = 3
    /\ stateRef.time = 3 * params.dt
    /\ stateRef.time > 0

\* C7: once a change of k0, x0, sigma or nx has been processed, the state
\* is the one initialize builds from the new parameters: arrays of length nx,
\* time 0
C7_Reinitialized ==
    [][(mounted /\ Changed(params, params') \cap WaveFields # {})
       => /\ stateRef' = Initialize(variant, params')
          /\ ALen(stateRef'.psi_r) = params'.nx
          /\ stateRef'.time = 0]_vars

\* a run that has been started, whose sigma and barrier position have been
\* moved, and whose state is the initial state of the new parameters
C7_Witness ==
    /\ mounted
    /\ isPlaying
    /\ variant = "iterative"
    /\ params.sigma # InitialParams(variant).sigma
    /\ params.barrierPos # InitialParams(variant).barrierPos
    /\ stateRef = Initialize(variant, params)
    /\ stateRef.psi_r # Initialize(variant, InitialParams(variant)).psi_r

\* C8: after the Reset button the simulation is paused, time is 0 and psi_r,
\* psi_i are the initial wave packet of the current parameters
C8_Reset ==
    [][Reset => /\ ~isPlaying'
                /\ stateRef'.time = 0
                /\ stateRef'.psi_r = InitPsi(variant, params').psi_r
                /\ stateRef'.psi_i = InitPsi(variant, params').psi_i]_vars

\* C15: once the simulation is paused (isPlaying is false and the effect of
\* the pause has run) no animation callback is pending and no evolution step
\* executes: the step count does not grow, and psi and the time stay as they
\* are unless the user resets or changes a parameter; whatever Start and
\* Pause clicks and frames came before
C15_PauseStops ==
    /\ [](~isPlaying => frames = 0)
    /\ [][~isPlaying =>
            /\ nsteps' <= nsteps
            /\ (params' = params /\ nsteps' = nsteps /\ mounted) =>
                  /\ stateRef'.psi_r = stateRef.psi_r
                  /\ stateRef'.psi_i = stateRef.psi_i
                  /\ stateRef'.time = stateRef.time]_vars

\* paused after frames have run: steps have been taken and the time has
\* advanced
C15_Witness ==
    /\ mounted
    /\ ~isPlaying
    /\ nsteps > 0
    /\ stateRef.time > 0

\* C23: while playing, each animation frame executes exactly `speed` steps,
\* so that it advances the time by exactly speed*dt; steps are executed by
\* frames of a playing simulation only (the jsx variant, which has no speed
\* parameter, counts as speed 1)
C23_StepsPerFrame ==
    [][nsteps' > nsteps =>
         LET p == Current(variant, params, paramsRef)
         IN  /\ isPlaying
             /\ nsteps' = nsteps + p.speed
             /\ stateRef'.time = Add(stateRef.time, MulInt(p.dt, p.speed))]_vars

\* a frame has run two steps at speed 2 from the initialized state
C23_Witness ==
    /\ isPlaying
    /\ Current(variant, params, paramsRef).speed = 2
    /\ nsteps = 2
    /\ stateRef.time = MulInt(Current(variant, params, paramsRef).dt, 2)

\* C25: after initialize, and after every parameter change once its effects
\* have run, the stored potential has length nx and is, at every grid index,
\* the value the potential builder computes from the current parameters; so
\* no frame steps with a potential of outdated barrier parameters
C25_PotentialCurrent ==
    mounted =>
        LET p == Current(variant, params, paramsRef)
        IN  /\ ALen(stateRef.V) = p.nx
            /\ \A i \in 0..(p.nx - 1) : stateRef.V[i] = BuildPotential(variant, p)[i]

\* the iterative variant has stepped after a change of the barrier height:
\* the potential holds the new height
C25_Witness ==
    /\ variant = "iterative"
    /\ nsteps > 0
    /\ params.barrierHeight # InitialParams(variant).barrierHeight
    /\ \E i \in DOMAIN stateRef.V :
          stateRef.V[i] = Add(params.barrierHeight, BoundaryTerm(variant, params, i))

\* C26: for any sequence of Start, Pause and Reset clicks, effect runs and
\* cleanups (the doubled effect run of StrictMode on mount included) and
\* animation frames, at most one animation frame callback is pending, and it
\* is the one animationRef.current holds; a transition that steps is taken
\* with one callback pending and leaves one pending, so that the time advances
\* by speed*dt per frame and by no more
C26_SingleLoop ==
    /\ [](frames <= 1 /\ (frames = 1 => tracked))
    /\ [][nsteps' > nsteps =>
            /\ frames = 1
            /\ frames' = 1
            /\ stateRef'.time = Add(stateRef.time,
                   MulInt(Current(variant, params, paramsRef).dt,
                          StepsPerFrame(variant, Current(variant, params, paramsRef))))]_vars

\* a component mounted in StrictMode that has been started, has run frames up
\* to the bound, and has its one callback pending
C26_Witness ==
    /\ StrictMode(variant)
    /\ isPlaying
    /\ frames = 1
    /\ tracked
    /\ nsteps = MaxSteps

\* psi_r, psi_i and V of a state are arrays of nx cells, none of them null
Allocated(st, p) ==
    /\ st.psi_r # Null /\ ALen(st.psi_r) = p.nx
    /\ st.psi_i # Null /\ ALen(st.psi_i) = p.nx
    /\ st.V # Null /\ ALen(st.V) = p.nx

\* C27: the state starts with psi_r, psi_i and V null and stays so until the
\* mount, during which no callback is pending and no step runs; from the mount
\* on the three are arrays, so that whenever a step executes it executes on
\* non-null arrays: the mount-time initialization comes before the first
\* frame that steps
C27_NoStepUninitialized ==
    /\ [](~mounted => (stateRef = NullState /\ frames = 0 /\ nsteps = 0))
    /\ [](mounted => Allocated(stateRef, Current(variant, params, paramsRef)))
    /\ [][nsteps' > nsteps =>
            /\ mounted
            /\ Allocated(stateRef, Current(variant, params, paramsRef))
            /\ Allocated(stateRef', Current(variant, params, paramsRef))]_vars

\* the jsx variant, whose animate() has no guard, has taken its first step on
\* the arrays of the mount-time initialization
C27_Witness ==
    /\ variant = "jsx"
    /\ mounted
    /\ nsteps = 1
    /\ stateRef.time = params.dt
    /\ Allocated(stateRef, params)

\* C28: on every parameter change the snapshot that initialize() and the
\* potential update read is the newly set parameters: after the change the
\* snapshot is the new params, a re-initialization leaves exactly the state
\* initialize() builds from the new params, and a potential update leaves
\* the potential built from the new params
C28_InitializeSeesNew ==
    [][params' # params =>
         /\ Current(variant, params', paramsRef') = params'
         /\ (Changed(params, params') \cap InitializeDeps(variant) # {}) =>
                stateRef' = Initialize(variant, params')
         /\ (Changed(params, params') \cap PotentialDeps(variant) # {}) =>
                stateRef'.V = BuildPotential(variant, params')]_vars

\* a wave-packet parameter has been changed, and the state is the one
\* initialize() builds from the new value, which is not the one it builds
\* from the value before
C28_Witness ==
    /\ mounted
    /\ \E f \in InitializeDeps(variant) :
          /\ params[f] # InitialParams(variant)[f]
          /\ params = [InitialParams(variant) EXCEPT ![f] = params[f]]
    /\ stateRef = Initialize(variant, params)
    /\ stateRef.psi_r # Initialize(variant, InitialParams(variant)).psi_r

\* the steps of the next call of animate() stay within the bound on the
\* number of steps
WithinSteps ==
    nsteps + StepsPerFrame(variant, Current(variant, params, paramsRef)) <= MaxSteps

\* what a pending call of animate() does to the number of steps: the steps of
\* Spec that do this are the steps of Frame
FrameSteps ==
    /\ frames > 0
    /\ WithinSteps
    /\ nsteps' = nsteps + StepsPerFrame(variant, Current(variant, params, paramsRef))

\* C30: when the animation frame scheduler is fair, a simulation that is
\* playing never stops scheduling itself (one callback is pending in every
\* state in which isPlaying is true); if it stays playing (and within the
\* bound on the number of steps) frame callbacks are executed again and
\* again, and from every state in which it is playing at k steps it comes to
\* more than k steps, and so to a later time, unless it is paused or reset,
\* or initialize() restarts the count
C30_Progress ==
    /\ [](isPlaying => frames = 1)
    /\ ([]<><<FrameSteps>>_nsteps \/ []<>(~isPlaying \/ ~WithinSteps))
    /\ \A k \in 0..(MaxSteps - 1) :
          (isPlaying /\ nsteps = k /\ WithinSteps) ~>
              (~isPlaying \/ ~WithinSteps \/ nsteps > k \/ nsteps < k)

\* the recursive variant is playing and its frames have advanced the time to
\* the bound, MaxSteps * dt
C30_Witness ==
    /\ variant = "recursive"
    /\ isPlaying
    /\ frames = 1
    /\ stateRef.time = MulInt(params.dt, MaxSteps)

Next == Mount \/ ChangeParam \/ Reset \/ TogglePlaying \/ Frame

Spec == Init /\ [][Next]_vars

\* the browser runs a pending animation frame callback at its next repaint:
\* a callback that stays pending is eventually run
SpecFair == Init /\ [][Next]_vars /\ WF_nsteps(FrameSteps)

-----------------------------------------------------------------------------
(* The FFT engines on their own: fft / ifft called on arrays of any length *)

FFTEngines == {"recursive", "iterative"}

\* the values of the cells of the input arrays
FFTValues == {0 - SCALE \div 2, 0, SCALE \div 2}

InitFFT ==
    /\ \E e \in FFTEngines : \E n \in 1..MaxN :
         \E re \in [0..(n - 1) -> FFTValues] : \E im \in [0..(n - 1) -> FFTValues] :
           ft = [pc |-> "input", engine |-> e, n |-> n, re0 |-> re, im0 |-> im,
                 re |-> re, im |-> im]
    /\ variant = ft.engine
    /\ params = InitialParams(variant)
    /\ paramsRef = params
    /\ stateRef = NullState
    /\ isPlaying = FALSE
    /\ frames = 0
    /\ tracked = FALSE
    /\ mounted = FALSE
    /\ nsteps = 0
    /\ observed = Unobserved
    /\ step = StepIdle

\* the arrays and the position after a call that returned r
AfterCall(run, r, done) ==
    [run EXCEPT !.pc = IF r.err THEN "thrown" ELSE done, !.re = r.re, !.im = r.im]

\* fft(re, im) / fft(re, im, false) on the input arrays
FFTForward ==
    /\ ft.pc = "input"
    /\ ft' = AfterCall(ft, Forward(ft.engine, ft.re, ft.im), "transformed")
    /\ UNCHANGED <<variant, params, paramsRef, stateRef, isPlaying, frames, tracked,
                   mounted, nsteps, observed, step>>

\* ifft(re, im) / fft(re, im, true) on the transformed arrays
FFTInverse ==
    /\ ft.pc = "transformed"
    /\ ft' = AfterCall(ft, Inverse(ft.engine, ft.re, ft.im), "restored")
    /\ UNCHANGED <<variant, params, paramsRef, stateRef, isPlaying, frames, tracked,
                   mounted, nsteps, observed, step>>

\* C1: for every power-of-two length and every pair of input arrays, the
\* forward transform followed by the inverse transform returns without an
\* error and gives back the input arrays, for the recursive fft/ifft pair and
\* for the iterative fft(.., false)/fft(.., true) pair
C1_RoundTrip ==
    IsPow2(ft.n) =>
        /\ ft.pc # "thrown"
        /\ ft.pc = "restored" => ft.re = ft.re0 /\ ft.im = ft.im0

\* a round trip of the iterative engine on 4 cells that are not all alike
\* and whose transform differs from the input
C1_Witness ==
    /\ ft.pc = "restored"
    /\ ft.engine = "iterative"
    /\ ft.n = 4
    /\ ft.re0[0] # ft.re0[1]
    /\ ft.im0[3] # 0
    /\ ft.re = ft.re0 /\ ft.im = ft.im0

\* C4: an array whose length is not a power of two is rejected: no transform
\* of it ever returns a result
C4_InvalidLengthRejected ==
    ~IsPow2(ft.n) => ft.pc \notin {"transformed", "restored"}

\* C12: for every power-of-two length, the recursive fft(re, im) and the
\* iterative fft(re, im, false) give the same output arrays for the same input,
\* and so do the recursive ifft(re, im) and the iterative fft(re, im, true)
C12_EnginesAgree ==
    IsPow2(ft.n) =>
        /\ ft.pc = "transformed" =>
             LET r == fftRecursive(ft.re0, ft.im0)
                 t == fftIterative(ft.re0, ft.im0, FALSE)
             IN  r.re = t.re /\ r.im = t.im
        /\ ft.pc = "restored" =>
             LET F == Forward(ft.engine, ft.re0, ft.im0)
                 r == ifft(F.re, F.im)
                 t == fftIterative(F.re, F.im, TRUE)
             IN  r.re = t.re /\ r.im = t.im

\* the scalars of a linear combination
Scalars == {0 - SCALE \div 2, 2 * SCALE}

\* the array a * x + b * y
Combine(a, x, b, y) == Stored([i \in DOMAIN x |-> Add(Mul(a, x[i]), Mul(b, y[i]))])

\* the array of n cells that are 0
Zeros(n) == [i \in 0..(n - 1) |-> 0]

\* the array of n cells that is 1 in cell j and 0 elsewhere
Impulse(n, j) == [i \in 0..(n - 1) |-> IF i = j THEN SCALE ELSE 0]

\* the second inputs of a linear combination: the impulses in the real part
\* and the impulses in the imaginary part
SecondInputs(n) ==
    {[re |-> Impulse(n, j), im |-> Zeros(n)] : j \in 0..(n - 1)}
        \cup {[re |-> Zeros(n), im |-> Impulse(n, j)] : j \in 0..(n - 1)}

\* forward(a * x + b * y) = a * forward(x) + b * forward(y) for the engine e,
\* where Fx is forward(x) and Fy is forward(y)
LinearAt(e, x, Fx, a, b, y, Fy) ==
    LET Fz == Forward(e, Combine(a, x.re, b, y.re), Combine(a, x.im, b, y.im))
    IN  /\ Fz.re = Combine(a, Fx.re, b, Fy.re)
        /\ Fz.im = Combine(a, Fx.im, b, Fy.im)

\* C13: the forward transform is linear: for every power-of-two length, input
\* arrays x and y and real scalars a and b, forward(a*x + b*y) equals
\* a*forward(x) + b*forward(y) in the real and in the imaginary parts, for the
\* recursive and for the iterative engine
C13_Linear ==
    (ft.pc = "transformed" /\ IsPow2(ft.n)) =>
        \A y \in SecondInputs(ft.n) :
            LET Fy == Forward(ft.engine, y.re, y.im)
            IN  \A a \in Scalars, b \in Scalars :
                    LinearAt(ft.engine, [re |-> ft.re0, im |-> ft.im0], ft, a, b, y, Fy)

\* a transform of the recursive engine on 4 cells whose bins 1 and 3 differ,
\* for which the combination 2 * x - y / 2 with an impulse y is transformed
\* to the combination of the transforms
C13_Witness ==
    /\ ft.pc = "transformed"
    /\ ft.engine = "recursive"
    /\ ft.n = 4
    /\ ft.re[1] # ft.re[3]
    /\ ft.im0[2] # 0
    /\ LET y == [re |-> Impulse(4, 1), im |-> Zeros(4)]
       IN  LinearAt(ft.engine, [re |-> ft.re0, im |-> ft.im0], ft, 2 * SCALE,
                    0 - SCALE \div 2, y, Forward(ft.engine, y.re, y.im))

\* the angle of the kernel e^{-2 pi i j k / n}
KernelAngle(j, k, n) == RoundDiv((0 - 2) * PI * j * k, n)

\* the sum over j < hi of x[j] * e^{-2 pi i j k / n}, for x = re + i im
RECURSIVE DFTSum(_, _, _, _)
DFTSum(re, im, k, hi) ==
    IF hi <= 0 THEN [re |-> 0, im |-> 0]
    ELSE LET rest == DFTSum(re, im, k, hi - 1)
             a == KernelAngle(hi - 1, k, ALen(re))
         IN  [re |-> Add(rest.re, Sub(Mul(re[hi - 1], Cos(a)), Mul(im[hi - 1], Sin(a)))),
              im |-> Add(rest.im, Add(Mul(re[hi - 1], Sin(a)), Mul(im[hi - 1], Cos(a))))]

\* C17: the forward transform of the recursive engine is the discrete
\* Fourier transform with kernel e^{-2 pi i j k / n}: for the lengths 1, 2, 4
\* and every input x, output[k] is the sum over j of x[j] e^{-2 pi i j k / n};
\* output[0] is the sum of the inputs, and an input of length 1 comes back
\* unchanged
C17_ForwardIsDFT ==
    (ft.pc = "transformed" /\ ft.engine = "recursive" /\ IsPow2(ft.n)) =>
        /\ \A k \in 0..(ft.n - 1) :
              /\ ft.re[k] = DFTSum(ft.re0, ft.im0, k, ft.n).re
              /\ ft.im[k] = DFTSum(ft.re0, ft.im0, k, ft.n).im
        /\ ft.re[0] = SumTo(ft.re0, ft.n)
        /\ ft.im[0] = SumTo(ft.im0, ft.n)
        /\ ft.n = 1 => ft.re = ft.re0 /\ ft.im = ft.im0

\* a transform of the recursive engine on 4 cells whose bins 1 and 3 differ,
\* so that the sign of the kernel shows, and whose bin 1 is the sum of the
\* definition
C17_Witness ==
    /\ ft.pc = "transformed"
    /\ ft.engine = "recursive"
    /\ ft.n = 4
    /\ ft.re[1] # ft.re[3]
    /\ ft.im[1] # ft.im[3]
    /\ ft.re[1] = DFTSum(ft.re0, ft.im0, 1, 4).re
    /\ ft.im[1] = DFTSum(ft.re0, ft.im0, 1, 4).im

\* negate the imaginary input, run the forward transform of the engine e,
\* divide by n, negate the imaginary output
ByConjugation(e, re, im) ==
    LET n == ALen(re)
        G == Forward(e, re, Negated(im))
    IN  [re |-> Stored([i \in DOMAIN re |-> DivInt(G.re[i], n)]),
         im |-> Stored([i \in DOMAIN im |-> DivInt(Neg(G.im[i]), n)])]

\* C18: within each engine, for every power-of-two length and every input,
\* the inverse transform equals the complex conjugate of the forward
\* transform of the conjugated input, divided by n: the recursive ifft and
\* the iterative fft(.., true) each agree with negating the imaginary input,
\* running that engine's forward transform, dividing by n and negating the
\* imaginary output
C18_InverseByConjugation ==
    (ft.pc = "restored" /\ IsPow2(ft.n)) =>
        LET X == Forward(ft.engine, ft.re0, ft.im0)
            C == ByConjugation(ft.engine, X.re, X.im)
        IN  ft.re = C.re /\ ft.im = C.im

\* the iterative engine has inverted a spectrum of 4 bins whose bins 1 and 3
\* differ and which has an imaginary part
C18_Witness ==
    /\ ft.pc = "restored"
    /\ ft.engine = "iterative"
    /\ ft.n = 4
    /\ LET X == Forward(ft.engine, ft.re0, ft.im0)
       IN  /\ X.re[1] # X.re[3]
           /\ X.im[1] # 0
           /\ ft.re = ByConjugation(ft.engine, X.re, X.im).re
           /\ ft.im = ByConjugation(ft.engine, X.re, X.im).im

NextFFT == FFTForward \/ FFTInverse

SpecFFT == InitFFT /\ [][NextFFT]_vars

-----------------------------------------------------------------------------
(* The functions initialize() and evolve() on their own, called with
   parameters of any value, among them values no slider reaches *)

\* the wave packets <<sigma, x0>> the functions are called with: two proper
\* ones, and sigma = 0 with x0 on a grid point and between two grid points
WavePackets(v) ==
    {<<SCALE, InitialParams(v).x0>>, <<SCALE \div 2, 0>>,
     <<0, InitialParams(v).x0>>, <<0, 0 - SCALE \div 2>>}

CoreParams(v) ==
    {[InitialParams(v) EXCEPT !.k0 = k, !.sigma = wp[1], !.x0 = wp[2], !.barrierHeight = h] :
        k \in {SCALE, 2 * SCALE}, wp \in WavePackets(v),
        h \in {InitialParams(v).barrierHeight, 0}}

InitCore ==
    /\ variant \in Variants
    /\ params \in CoreParams(variant)
    /\ paramsRef = IF variant = "jsx" THEN Null ELSE params
    /\ stateRef = NullState
    /\ isPlaying = FALSE
    /\ frames = 0
    /\ tracked = FALSE
    /\ mounted = FALSE
    /\ nsteps = 0
    /\ ft = FtIdle
    /\ observed = Unobserved
    /\ step = StepIdle

\* a call of initialize()
CoreInitialize ==
    /\ stateRef' = Initialize(variant, Current(variant, params, paramsRef))
    /\ mounted' = TRUE
    /\ nsteps' = 0
    /\ UNCHANGED <<variant, params, paramsRef, isPlaying, frames, tracked, ft, observed, step>>

\* a call of evolve()
CoreEvolve ==
    /\ mounted
    /\ nsteps < MaxSteps
    /\ stateRef' = Evolve(variant, Current(variant, params, paramsRef), stateRef)
    /\ nsteps' = nsteps + 1
    /\ UNCHANGED <<variant, params, paramsRef, isPlaying, frames, tracked, mounted, ft, observed, step>>

\* a call of draw()
CoreDraw ==
    /\ stateRef' = draw(variant, Current(variant, params, paramsRef), stateRef, observed).state
    /\ observed' = draw(variant, Current(variant, params, paramsRef), stateRef, observed).seen
    /\ UNCHANGED <<variant, params, paramsRef, isPlaying, frames, tracked, mounted, nsteps, ft,
                   step>>

\* every cell of psi_r and psi_i is a finite number
AllFinite(st) ==
    \A i \in DOMAIN st.psi_r : IsFinite(st.psi_r[i]) /\ IsFinite(st.psi_i[i])

\* the parameters give a wave packet with a finite, nonzero sum of squares
NonDegenerate(v, p) ==
    IsFinite(AssignedSquares(v, p)) /\ AssignedSquares(v, p) > 0

\* the state is the one a call of initialize() has just stored
JustInitialized == mounted /\ nsteps = 0

\* C3: immediately after initialize, for a non-degenerate parameter set, every
\* psi_r[i] and psi_i[i] is a finite number and the total probability is 1
\* within the tolerance of the arithmetic (2 percent)
C3_InitNormalized ==
    (JustInitialized /\ NonDegenerate(variant, params)) =>
        /\ AllFinite(stateRef)
        /\ totalProbability(stateRef, params) \in (SCALE - SCALE \div 50)..(SCALE + SCALE \div 50)

\* C5: when the sum of squares accumulated by initialize is zero, initialize
\* installs no state: no state with a NaN or infinite cell is ever stored
C5_DegenerateRejected ==
    (mounted /\ AssignedSquares(variant, params) = 0) =>
        stateRef = NullState \/ AllFinite(stateRef)

\* the grid points of the margin in which the variant changes V at the edges
Margin(v, p) == {i \in 0..(p.nx - 1) : BoundaryTerm(v, p, i) # 0}

\* the probability inside the margin
MarginProbability(v, p, st) ==
    Mul(SumTo(Stored([i \in 0..(p.nx - 1) |->
                        IF i \in Margin(v, p) THEN Density(st.psi_r[i], st.psi_i[i]) ELSE 0]),
              p.nx),
        p.dx)

\* C10: a step taken with a nonzero margin and some probability inside the
\* margin leaves a total probability strictly smaller than before the step
C10_AbsorptionDecreasesNorm ==
    [][(/\ nsteps' = nsteps + 1
        /\ Margin(variant, params) # {}
        /\ AllFinite(stateRef)
        /\ MarginProbability(variant, params, stateRef) > 0)
       => totalProbability(stateRef', params) < totalProbability(stateRef, params)]_vars

\* the potential is zero at every grid point
ZeroPotential(st) == \A i \in DOMAIN st.V : st.V[i] = 0

\* the two end cells, which the finite-difference evolvers set to 0, hold no
\* probability
WallsEmpty(st) ==
    LET last == ALen(st.psi_r) - 1
    IN  st.psi_r[0] = 0 /\ st.psi_i[0] = 0 /\ st.psi_r[last] = 0 /\ st.psi_i[last] = 0

\* C11: with a potential that is zero at every grid point, the total
\* probability after a step equals the total probability before it, within
\* the tolerance of the arithmetic (2 percent); stated for the steps that
\* start with no probability in the two end cells
C11_NormPreserved ==
    [][(/\ nsteps' = nsteps + 1
        /\ AllFinite(stateRef)
        /\ ZeroPotential(stateRef)
        /\ WallsEmpty(stateRef))
       => totalProbability(stateRef', params) \in
            (totalProbability(stateRef, params) - SCALE \div 50)..
            (totalProbability(stateRef, params) + SCALE \div 50)]_vars

\* C14: the observables are read-only: a call that computes the density and
\* the total probability and draws them changes neither psi, the potential,
\* the time nor the parameters; the density it plots is psi_r[i]^2 + psi_i[i]^2
\* at every grid point, and the total it prints is the sum of the densities
\* times dx
C14_ObservablesReadOnly ==
    [][observed' # observed =>
         /\ stateRef' = stateRef
         /\ params' = params /\ paramsRef' = paramsRef
         /\ \A i \in DOMAIN stateRef.psi_r :
               observed'.prob[i] =
                   Add(Mul(stateRef.psi_r[i], stateRef.psi_r[i]),
                       Mul(stateRef.psi_i[i], stateRef.psi_i[i]))
         /\ \A j \in DOMAIN observed'.totals :
               observed'.totals[j] =
                   Mul(SumTo(observed'.prob, ALen(observed'.prob)), params.dx)]_vars

\* the iterative variant has drawn the state that a step left: a density
\* that is not zero everywhere and a positive total
C14_Witness ==
    /\ variant = "iterative"
    /\ nsteps > 0
    /\ observed.totals # <<>>
    /\ observed.totals[1] > 0
    /\ \A i \in DOMAIN stateRef.psi_r :
          observed.prob[i] = Density(stateRef.psi_r[i], stateRef.psi_i[i])

\* C16: a step changes only the wavefunction and the time: the potential
\* array and the parameters after a call of evolve() are the ones before it
C16_StepKeepsPotential ==
    [][nsteps' = nsteps + 1 =>
         /\ stateRef'.V = stateRef.V
         /\ params' = params
         /\ paramsRef' = paramsRef]_vars

\* steps have moved a finite wavefunction past a barrier that stands as
\* initialize() built it
C16_Witness ==
    /\ nsteps > 1
    /\ AllFinite(stateRef)
    /\ \E i \in DOMAIN stateRef.V : stateRef.V[i] > 0
    /\ stateRef.V = BuildPotential(variant, Current(variant, params, paramsRef))
    /\ stateRef.psi_r # Initialize(variant, Current(variant, params, paramsRef)).psi_r

\* the barrier centred on barrierPos, both edges excluded
CentredBarrier(p, x) ==
    IF 2 * p.barrierPos - p.barrierWidth < 2 * x /\ 2 * x < 2 * p.barrierPos + p.barrierWidth
    THEN p.barrierHeight ELSE 0

\* C20: at every grid index i with position x = xStart + i*dx, the barrier
\* contributes barrierHeight to the potential exactly when
\* barrierPos - barrierWidth/2 < x < barrierPos + barrierWidth/2, and 0
\* otherwise: the potential that initialize() stores is this term plus what
\* the variant adds at the edges of the domain
C20_BarrierCentred ==
    JustInitialized =>
        LET p == Current(variant, params, paramsRef)
        IN  \A i \in 0..(p.nx - 1) :
                stateRef.V[i] = Add(CentredBarrier(p, GridX(variant, p, i)),
                                    BoundaryTerm(variant, p, i))

\* the distance of grid index i from the nearer edge of the domain, in grid
\* points
EdgeDistance(p, i) == IF i < p.nx - 1 - i THEN i ELSE p.nx - 1 - i

\* the downward quadratic ramp -eta * (w - d)^2 within w grid points of an edge
AbsorbingRamp(p, i) ==
    IF EdgeDistance(p, i) < w
    THEN MulInt(Neg(eta), (w - EdgeDistance(p, i)) * (w - EdgeDistance(p, i)))
    ELSE 0

\* C21: in the variants with an absorbing boundary, the potential that
\* initialize() stores is, at every grid index i, the barrier term plus
\* -eta*(w - d)^2 when the distance d from the nearer edge is below w and plus
\* 0 otherwise; the boundary contribution is never positive and is the same
\* at i and at nx-1-i
C21_AbsorbingRamp ==
    (JustInitialized /\ variant \in FFTVariants) =>
        LET p == Current(variant, params, paramsRef)
            boundary(i) == Sub(stateRef.V[i], BarrierTerm(variant, p, GridX(variant, p, i)))
        IN  \A i \in 0..(p.nx - 1) :
                /\ boundary(i) = AbsorbingRamp(p, i)
                /\ boundary(i) <= 0
                /\ boundary(i) = boundary(p.nx - 1 - i)

NextCore == CoreInitialize \/ CoreEvolve \/ CoreDraw

SpecCore == InitCore /\ [][NextCore]_vars

-----------------------------------------------------------------------------
(* A call of evolve() statement by statement.  JavaScript runs the call to
   completion, so nothing else happens between its operations; the arrays a
   variant builds aside (psi_r_new, psi_i_new) are kept in stateRef where the
   call stores them when it ends *)

\* the operations of evolve() in the order of the source: the loops of the
\* half step in the potential, the calls of the FFT engine, the loop of the
\* kinetic phases, the finite-difference update, and time += dt
Program(v) ==
    CASE v \in FFTVariants -> <<"potential", "fft", "kinetic", "ifft", "potential", "time">>
      [] v = "staggered" -> <<"differences", "time">>
      [] OTHER -> <<"potential", "differences", "potential", "time">>

\* the operation the call runs next; at position 0 a new call begins
NextOp == Program(variant)[step.pc + 1]

\* evolve() may be called, or is under way
StepEnabled(op) == mounted /\ nsteps < MaxSteps /\ NextOp = op

\* the position and the operations run after the operation op
Ran(op) ==
    [pc |-> IF step.pc + 1 = Len(Program(variant)) THEN 0 ELSE step.pc + 1,
     calls |-> IF step.pc = 0 THEN <<op>> ELSE Append(step.calls, op)]

\* the kinetic update by finite differences of the jsx variant, with its
\* boundary conditions
KineticDifferences(p, a) ==
    [psi_r |-> Stored([i \in 0..(p.nx - 1) |->
                  IF i = 0 \/ i = p.nx - 1 THEN 0
                  ELSE Add(a.psi_r[i], Mul(DiffusionCoeff(p), Laplacian(a.psi_i, i)))]),
     psi_i |-> Stored([i \in 0..(p.nx - 1) |->
                  IF i = 0 \/ i = p.nx - 1 THEN 0
                  ELSE Sub(a.psi_i[i], Mul(DiffusionCoeff(p), Laplacian(a.psi_r, i)))])]

InitStep == InitCore

\* a call of initialize(), between two calls of evolve()
StepInitialize ==
    /\ step.pc = 0
    /\ CoreInitialize

\* the loop of the half step in the potential
StepPotential ==
    /\ StepEnabled("potential")
    /\ LET a == HalfStepPotential(stateRef, stateRef.V, Current(variant, params, paramsRef))
       IN  stateRef' = [stateRef EXCEPT !.psi_r = a.psi_r, !.psi_i = a.psi_i]
    /\ step' = Ran("potential")
    /\ UNCHANGED <<variant, params, paramsRef, isPlaying, frames, tracked, mounted, nsteps, ft,
                   observed>>

\* fft(psi_r, psi_i) / fft(psi_r, psi_i, false)
StepForward ==
    /\ StepEnabled("fft")
    /\ LET F == Forward(variant, stateRef.psi_r, stateRef.psi_i)
       IN  stateRef' = [stateRef EXCEPT !.psi_r = F.re, !.psi_i = F.im]
    /\ step' = Ran("fft")
    /\ UNCHANGED <<variant, params, paramsRef, isPlaying, frames, tracked, mounted, nsteps, ft,
                   observed>>

\* the loop of the kinetic phases
StepKinetic ==
    /\ StepEnabled("kinetic")
    /\ LET k == KineticStep(variant, stateRef, Current(variant, params, paramsRef))
       IN  stateRef' = [stateRef EXCEPT !.psi_r = k.psi_r, !.psi_i = k.psi_i]
    /\ step' = Ran("kinetic")
    /\ UNCHANGED <<variant, params, paramsRef, isPlaying, frames, tracked, mounted, nsteps, ft,
                   observed>>

\* ifft(psi_r, psi_i) / fft(psi_r, psi_i, true)
StepInverse ==
    /\ StepEnabled("ifft")
    /\ LET B == Inverse(variant, stateRef.psi_r, stateRef.psi_i)
       IN  stateRef' = [stateRef EXCEPT !.psi_r = B.re, !.psi_i = B.im]
    /\ step' = Ran("ifft")
    /\ UNCHANGED <<variant, params, paramsRef, isPlaying, frames, tracked, mounted, nsteps, ft,
                   observed>>

\* the finite-difference loops of the jsx and of the staggered variant
StepDifferences ==
    /\ StepEnabled("differences")
    /\ LET p == Current(variant, params, paramsRef)
           d == IF variant = "staggered" THEN EvolveStaggered(p, stateRef)
                ELSE KineticDifferences(p, stateRef)
       IN  stateRef' = [stateRef EXCEPT !.psi_r = d.psi_r, !.psi_i = d.psi_i]
    /\ step' = Ran("differences")
    /\ UNCHANGED <<variant, params, paramsRef, isPlaying, frames, tracked, mounted, nsteps, ft,
                   observed>>

\* stateRef.current.time += dt, and the call returns
StepTime ==
    /\ StepEnabled("time")
    /\ stateRef' = [stateRef EXCEPT !.time = Add(@, Current(variant, params, paramsRef).dt)]
    /\ nsteps' = nsteps + 1
    /\ step' = Ran("time")
    /\ UNCHANGED <<variant, params, paramsRef, isPlaying, frames, tracked, mounted, ft,
                   observed>>

\* the calls of the FFT engine among the operations
FFTCalls(calls) == {i \in DOMAIN calls : calls[i] \in {"fft", "ifft"}}

\* C19: every step performs, in this order and each once, a half step in
\* the potential, a forward FFT, a full kinetic step in momentum space, an
\* inverse FFT, a second half step in the potential, and time += dt; the FFT
\* engine is called exactly twice in a step
C19_StepOrder ==
    (step.pc = 0 /\ step.calls # <<>>) =>
        /\ step.calls = <<"potential", "fft", "kinetic", "ifft", "potential", "time">>
        /\ Cardinality(FFTCalls(step.calls)) = 2

\* the grid sizes for which the wavenumbers are compared
GridSizes == {2, 4, 8, 16}

\* the wavenumber 2 pi b / (n dx) of the signed bin number b
BinWaveNumber(b, n, dx) == Div(MulInt(PI, 2 * b), MulInt(dx, n))

\* the kinetic phase -hbar k^2 dt / (2 m) of the wavenumber k
PhaseOf(k, p) == Div(Mul(Mul(Mul(Neg(p.hbar), k), k), p.dt), MulInt(p.m, 2))

\* C22: in the kinetic sub-step, momentum-space index i is given the signed
\* bin number i when i < nx/2 and i - nx when i >= nx/2, times 2 pi/(nx dx):
\* the loop rotates cell i by the phase of that wavenumber, the bin numbers
\* used are exactly the integers from -nx/2 to nx/2 - 1, each once, and index
\* nx/2 gets -nx/2
C22_WaveBins ==
    [][(NextOp = "kinetic" /\ step' # step) =>
         LET p == Current(variant, params, paramsRef)
             bin(i, n) == IF 2 * i < n THEN i ELSE i - n
         IN  /\ \A i \in 0..(p.nx - 1) :
                   LET ph == PhaseOf(BinWaveNumber(bin(i, p.nx), p.nx, p.dx), p)
                   IN  /\ stateRef'.psi_r[i] =
                             RotateReal(stateRef.psi_r[i], stateRef.psi_i[i], ph)
                       /\ stateRef'.psi_i[i] =
                             RotateImag(stateRef.psi_r[i], stateRef.psi_i[i], ph)
             /\ \A n \in GridSizes :
                   /\ \A i \in 0..(n - 1) :
                         WaveNumber(variant, i, [p EXCEPT !.nx = n]) =
                             BinWaveNumber(bin(i, n), n, p.dx)
                   /\ {WaveBin(i, n) : i \in 0..(n - 1)} = (0 - n \div 2)..(n \div 2 - 1)
                   /\ Cardinality({WaveBin(i, n) : i \in 0..(n - 1)}) = n
                   /\ WaveBin(n \div 2, n) = 0 - n \div 2]_vars

\* the kinetic loop has just rotated a finite spectrum whose cell 3 (bin -1)
\* is not zero
C22_Witness ==
    /\ step.pc = 3
    /\ step.calls = <<"potential", "fft", "kinetic">>
    /\ AllFinite(stateRef)
    /\ stateRef.psi_r[3] # 0
    /\ stateRef.psi_r[2] # 0

\* C29: a half step in the potential computes, at every grid index and for
\* every potential value (the negative values of the boundary ramp included),
\* both new components from the old pair (r, im), and leaves
\* psi_r[i]^2 + psi_i[i]^2 as it was; so the potential sub-steps of a step do
\* not change the total probability
C29_PotentialKeepsDensity ==
    [][(NextOp = "potential" /\ step' # step) =>
         LET p == Current(variant, params, paramsRef)
         IN  /\ \A i \in 0..(p.nx - 1) :
                  LET r == stateRef.psi_r[i]
                      im == stateRef.psi_i[i]
                      ph == PotentialPhase(stateRef.V[i], p)
                  IN  /\ stateRef'.psi_r[i] = RotateReal(r, im, ph)
                      /\ stateRef'.psi_i[i] = RotateImag(r, im, ph)
                      /\ Density(stateRef'.psi_r[i], stateRef'.psi_i[i]) = Density(r, im)
             /\ totalProbability(stateRef', p) = totalProbability(stateRef, p)]_vars

\* the first half step of a call has rotated, by an odd number of quarter
\* turns, a cell of the boundary ramp that holds a part of the wave packet
C29_Witness ==
    /\ step.pc = 1
    /\ step.calls = <<"potential">>
    /\ AllFinite(stateRef)
    /\ \E i \in DOMAIN stateRef.V :
          /\ stateRef.V[i] < 0
          /\ Sin(PotentialPhase(stateRef.V[i], Current(variant, params, paramsRef))) # 0
          /\ stateRef.psi_r[i] # stateRef.psi_i[i]
          /\ Density(stateRef.psi_r[i], stateRef.psi_i[i]) > 0

NextStep ==
    \/ StepInitialize
    \/ StepPotential
    \/ StepForward
    \/ StepKinetic
    \/ StepInverse
    \/ StepDifferences
    \/ StepTime

SpecStep == InitStep /\ [][NextStep]_vars

=============================================================================
